---- MODULE Spec2Model ----
(***************************************************************************)
(* Model of formatModelica (src/prettier-plugin-modelica.js), the line-    *)
(* oriented formatter of the Prettier plugin for Modelica.                 *)
(*                                                                         *)
(* Text is a TLA+ string; a character is a string of length one.  The      *)
(* whole-text rewrites of the formatter are JavaScript regular-expression  *)
(* replacements; they are modelled by a small backtracking matcher         *)
(* (Match/ReplaceAll) that is given each expression of the source as a     *)
(* sequence of items, so that every rewrite is computed as the code        *)
(* computes it.                                                            *)
(***************************************************************************)
EXTENDS Integers, Sequences, FiniteSets, TLC

----------------------------------------------------------------------------
(* Characters and the JavaScript string primitives the formatter uses.     *)

Digit == {"0", "1", "2", "3", "4", "5", "6", "7", "8", "9"}

Letter ==
    {"a", "b", "c", "d", "e", "f", "g", "h", "i", "j", "k", "l", "m",
     "n", "o", "p", "q", "r", "s", "t", "u", "v", "w", "x", "y", "z",
     "A", "B", "C", "D", "E", "F", "G", "H", "I", "J", "K", "L", "M",
     "N", "O", "P", "Q", "R", "S", "T", "U", "V", "W", "X", "Y", "Z"}

\* \w of a JavaScript regular expression
Word == Letter \cup Digit \cup {"_"}

\* \s of a JavaScript regular expression (the white space trim() strips)
Space == {" ", "\n", "\t", "\r"}

\* s.charAt(p - 1): the character at 1-based position p, "" outside s
Char(s, p) == IF p >= 1 /\ p <= Len(s) THEN SubSeq(s, p, p) ELSE ""

\* s.startsWith(t)
StartsWith(s, t) == Len(t) <= Len(s) /\ SubSeq(s, 1, Len(t)) = t

\* s.endsWith(t)
EndsWith(s, t) ==
    Len(t) <= Len(s) /\ SubSeq(s, Len(s) - Len(t) + 1, Len(s)) = t

\* s.includes(t)
Includes(s, t) ==
    \E p \in 1..(Len(s) - Len(t) + 1) : SubSeq(s, p, p + Len(t) - 1) = t

\* the number of leading white-space characters of s: s.match(/^\s*/)[0].length
RECURSIVE LeadWidth(_)
LeadWidth(s) ==
    IF s # "" /\ Char(s, 1) \in Space THEN 1 + LeadWidth(Tail(s)) ELSE 0

\* the number of trailing white-space characters of s
RECURSIVE TrailWidth(_)
TrailWidth(s) ==
    IF s # "" /\ Char(s, Len(s)) \in Space
    THEN 1 + TrailWidth(SubSeq(s, 1, Len(s) - 1))
    ELSE 0

\* s.trim()
Trim(s) ==
    IF LeadWidth(s) = Len(s) THEN ""
    ELSE SubSeq(s, LeadWidth(s) + 1, Len(s) - TrailWidth(s))

\* ' '.repeat(n) for n >= 0 (a negative count throws, see RepeatThrows)
RECURSIVE Spaces(_)
Spaces(n) == IF n <= 0 THEN "" ELSE " " \o Spaces(n - 1)

\* String.prototype.repeat throws a RangeError on a negative count
RepeatThrows(n) == n < 0

\* the position of the first "\n" of s at or after p, 0 when there is none
RECURSIVE NextNewline(_, _)
NextNewline(s, p) ==
    IF p > Len(s) THEN 0
    ELSE IF Char(s, p) = "\n" THEN p
    ELSE NextNewline(s, p + 1)

\* s.split('\n')
RECURSIVE Split(_)
Split(s) ==
    LET n == NextNewline(s, 1) IN
    IF n = 0 THEN <<s>>
    ELSE <<SubSeq(s, 1, n - 1)>> \o Split(SubSeq(s, n + 1, Len(s)))

\* ls.join('\n')
RECURSIVE Join(_)
Join(ls) ==
    IF Len(ls) = 0 THEN ""
    ELSE IF Len(ls) = 1 THEN ls[1]
    ELSE ls[1] \o "\n" \o Join(Tail(ls))

----------------------------------------------------------------------------
(* Regular expressions.  An expression is a sequence of items matched left *)
(* to right with backtracking, greedy quantifiers and ordered alternation, *)
(* as the JavaScript engine does.                                          *)

Item(kind, str, set, neg, min, many, opts) ==
    [k |-> kind, s |-> str, set |-> set, neg |-> neg, min |-> min,
     many |-> many, cap |-> 0, sub |-> opts]

\* a literal string
Lit(str) == Item("lit", str, {}, FALSE, 1, FALSE, <<>>)
\* one character of a class:  [set]
One(set) == Item("cls", "", set, FALSE, 1, FALSE, <<>>)
\* [set]*
Star(set) == Item("cls", "", set, FALSE, 0, TRUE, <<>>)
\* [set]+
Plus(set) == Item("cls", "", set, FALSE, 1, TRUE, <<>>)
\* [set]{n,}
AtLeast(set, n) == Item("cls", "", set, FALSE, n, TRUE, <<>>)
\* [^set]*  and  [^set]+  and  one [^set] (\S is NotOne(Space))
NotStar(set) == Item("cls", "", set, TRUE, 0, TRUE, <<>>)
NotPlus(set) == Item("cls", "", set, TRUE, 1, TRUE, <<>>)
NotOne(set) == Item("cls", "", set, TRUE, 1, FALSE, <<>>)
\* (a|b|...): the options are tried in order
Alt(opts) == Item("alt", "", {}, FALSE, 1, FALSE, opts)
\* ^ (no m flag: the start of the text) and $ (the end of the text)
Bol == Item("bol", "", {}, FALSE, 1, FALSE, <<>>)
Eot == Item("eot", "", {}, FALSE, 1, FALSE, <<>>)
\* \b
WordB == Item("wordb", "", {}, FALSE, 1, FALSE, <<>>)
\* (?=items) and (?!items)
Ahead(items) == Item("ahead", "", {}, FALSE, 1, FALSE, items)
NotAhead(items) == Item("nahead", "", {}, FALSE, 1, FALSE, items)
\* the item as capture group n
Cap(n, item) == [item EXCEPT !.cap = n]

NoCaps == <<"", "", "">>
NoMatch == [ok |-> FALSE, end |-> 0, caps |-> NoCaps]

InCls(it, ch) == ch # "" /\ ((ch \in it.set) # it.neg)

\* the length of the longest run of characters of it's class from p
RECURSIVE RunLen(_, _, _)
RunLen(it, s, p) ==
    IF InCls(it, Char(s, p)) THEN 1 + RunLen(it, s, p + 1) ELSE 0

SetCap(caps, it, s, p, e) ==
    IF it.cap = 0 THEN caps ELSE [caps EXCEPT ![it.cap] = SubSeq(s, p, e - 1)]

IsWordAt(s, p) == Char(s, p) \in Word

RECURSIVE Match(_, _, _, _, _)
RECURSIVE TryRun(_, _, _, _, _, _)
RECURSIVE TryAlt(_, _, _, _, _, _)

\* items k.. of re matched at position p of s: [ok, end, caps], end being the
\* position after the match
Match(re, k, s, p, caps) ==
    IF k > Len(re) THEN [ok |-> TRUE, end |-> p, caps |-> caps]
    ELSE LET it == re[k] IN
      CASE it.k = "lit" ->
             IF p + Len(it.s) - 1 <= Len(s)
                /\ SubSeq(s, p, p + Len(it.s) - 1) = it.s
             THEN Match(re, k + 1, s, p + Len(it.s),
                        SetCap(caps, it, s, p, p + Len(it.s)))
             ELSE NoMatch
        [] it.k = "cls" ->
             LET run == RunLen(it, s, p)
                 n == IF it.many THEN run ELSE IF run >= 1 THEN 1 ELSE 0
             IN TryRun(re, k, s, p, caps, n)
        [] it.k = "alt" -> TryAlt(re, k, s, p, caps, 1)
        [] it.k = "bol" ->
             IF p = 1 THEN Match(re, k + 1, s, p, SetCap(caps, it, s, p, p))
             ELSE NoMatch
        [] it.k = "eot" ->
             IF p = Len(s) + 1 THEN Match(re, k + 1, s, p, caps) ELSE NoMatch
        [] it.k = "wordb" ->
             IF IsWordAt(s, p - 1) # IsWordAt(s, p)
             THEN Match(re, k + 1, s, p, caps) ELSE NoMatch
        [] it.k = "ahead" ->
             IF Match(it.sub, 1, s, p, caps).ok
             THEN Match(re, k + 1, s, p, caps) ELSE NoMatch
        [] it.k = "nahead" ->
             IF ~Match(it.sub, 1, s, p, caps).ok
             THEN Match(re, k + 1, s, p, caps) ELSE NoMatch

\* a quantified class: the longest run first, then shorter ones
TryRun(re, k, s, p, caps, n) ==
    IF n < re[k].min THEN NoMatch
    ELSE LET r == Match(re, k + 1, s, p + n, SetCap(caps, re[k], s, p, p + n))
         IN IF r.ok THEN r ELSE TryRun(re, k, s, p, caps, n - 1)

\* an alternation: option j first, then the later ones
TryAlt(re, k, s, p, caps, j) ==
    IF j > Len(re[k].sub) THEN NoMatch
    ELSE LET o == Match(<<re[k].sub[j]>>, 1, s, p, caps)
             r == Match(re, k + 1, s, o.end, SetCap(caps, re[k], s, p, o.end))
         IN IF o.ok /\ r.ok THEN r ELSE TryAlt(re, k, s, p, caps, j + 1)

\* the replacement text of a match: "$1", "$2", "$3" are the capture groups
\* and "$&" the whole match
RECURSIVE Expand(_, _, _)
Expand(tpl, caps, whole) ==
    IF Len(tpl) = 0 THEN ""
    ELSE (CASE tpl[1] = "$1" -> caps[1]
            [] tpl[1] = "$2" -> caps[2]
            [] tpl[1] = "$3" -> caps[3]
            [] tpl[1] = "$&" -> whole
            [] OTHER -> tpl[1]) \o Expand(Tail(tpl), caps, whole)

\* the positions of s at which re matches
MatchStarts(s, re) == {q \in 1..Len(s) : Match(re, 1, s, q, NoCaps).ok}

\* s.replace(/re/g, tpl) from position p on: the leftmost match at or after
\* p is replaced and the search goes on after it (after one more character
\* when the match is empty); starts is MatchStarts(s, re)
RECURSIVE ReplaceFrom(_, _, _, _, _)
ReplaceFrom(s, re, tpl, p, starts) ==
    LET ahead == {q \in starts : q >= p} IN
    IF ahead = {} THEN SubSeq(s, p, Len(s))
    ELSE LET q == CHOOSE m \in ahead : \A n \in ahead : m <= n
             r == Match(re, 1, s, q, NoCaps)
         IN IF r.end = q
            THEN SubSeq(s, p, q - 1) \o Expand(tpl, r.caps, "") \o Char(s, q)
                 \o ReplaceFrom(s, re, tpl, q + 1, starts)
            ELSE SubSeq(s, p, q - 1)
                 \o Expand(tpl, r.caps, SubSeq(s, q, r.end - 1))
                 \o ReplaceFrom(s, re, tpl, r.end, starts)

\* every literal item of re occurs in s: without that re matches nowhere
CanMatch(re, s) ==
    \A k \in 1..Len(re) : re[k].k = "lit" => Includes(s, re[k].s)

\* s.replace(/re/g, tpl)
ReplaceAll(s, re, tpl) ==
    IF CanMatch(re, s) THEN ReplaceFrom(s, re, tpl, 1, MatchStarts(s, re))
    ELSE s

----------------------------------------------------------------------------
(* The regular expressions of formatModelica, in source order.             *)

Sp == Star(Space)
Sp1 == Plus(Space)
UniName == Alt(<<Lit("nUniShc"), Lit("nUniHea"), Lit("nUniCoo")>>)

\* /\r\n/g
ReCrLf == <<Lit("\r\n")>>
\* /\/\s+\//g
ReBrokenComment == <<Lit("/"), Sp1, Lit("/")>>
\* /(nUniShc|nUniHea|nUniCoo)\s+-\s+(\d+)/g
ReUniMinus == <<Cap(1, UniName), Sp1, Lit("-"), Sp1, Cap(2, Plus(Digit))>>
\* /\(\s*1\s+-\s+ratCycShc\)/g
ReOneMinusRat ==
    <<Lit("("), Sp, Lit("1"), Sp1, Lit("-"), Sp1, Lit("ratCycShc)")>>
\* /\(nUniShc\s+-\s+(\d+)\s+\+\s+ratCycShc\)/g
ReShcMinusPlusRat ==
    <<Lit("(nUniShc"), Sp1, Lit("-"), Sp1, Cap(1, Plus(Digit)), Sp1,
      Lit("+"), Sp1, Lit("ratCycShc)")>>
\* /within\s+([^;]+);/g
ReWithin == <<Lit("within"), Sp1, Cap(1, NotPlus({";"})), Lit(";")>>
\* /within[^;]*;\n(?!\s*$)/g
ReWithinLine ==
    <<Lit("within"), NotStar({";"}), Lit(";\n"), NotAhead(<<Sp, Eot>>)>>
\* /,(?=\S)/g
ReComma == <<Lit(","), Ahead(<<NotOne(Space)>>)>>
\* /\s*([+*\/=<>])\s*/g
ReOperator == <<Sp, Cap(1, One({"+", "*", "/", "=", "<", ">"})), Sp>>
\* /(\w|\)|\]|\})\s*-\s*/g
ReSubtract ==
    <<Cap(1, Alt(<<One(Word), Lit(")"), Lit("]"), Lit("}")>>)), Sp, Lit("-"), Sp>>
\* /(\s|^|,|\(|\[|\{|=)-\s+(\d)/g
ReNegLiteral ==
    <<Cap(1, Alt(<<One(Space), Bol, Lit(","), Lit("("), Lit("["), Lit("{"),
                   Lit("=")>>)),
      Lit("-"), Sp1, Cap(2, One(Digit))>>
\* /(\*|\/|\+|\s)\s*-\s+(\d)/g
ReNegation ==
    <<Cap(1, Alt(<<Lit("*"), Lit("/"), Lit("+"), One(Space)>>)), Sp, Lit("-"),
      Sp1, Cap(2, One(Digit))>>
\* /([eE])\s*-\s*(\d)/g
ReExpMinus == <<Cap(1, One({"e", "E"})), Sp, Lit("-"), Sp, Cap(2, One(Digit))>>
\* /([eE])\s*\+\s*(\d)/g
ReExpPlus == <<Cap(1, One({"e", "E"})), Sp, Lit("+"), Sp, Cap(2, One(Digit))>>
\* /annotation\s*\(\s*/g
ReAnnotation == <<Lit("annotation"), Sp, Lit("("), Sp>>
\* /\[\s*:\s*\]/g
ReBareColon == <<Lit("["), Sp, Lit(":"), Sp, Lit("]")>>
\* /(\d|\w|\))\s*:\s*(\d|\w|\()/g
ReColon ==
    <<Cap(1, Alt(<<One(Digit), One(Word), Lit(")")>>)), Sp, Lit(":"), Sp,
      Cap(2, Alt(<<One(Digit), One(Word), Lit("(")>>))>>
\* /(\w+)\s*\[\s*(\d+)\s*:\s*(\d+)\s*\]/g
ReIndexRange ==
    <<Cap(1, Plus(Word)), Sp, Lit("["), Sp, Cap(2, Plus(Digit)), Sp, Lit(":"),
      Sp, Cap(3, Plus(Digit)), Sp, Lit("]")>>
\* /(\w+)\s*\[\s*:\s*\]/g
ReIndexAll ==
    <<Cap(1, Plus(Word)), Sp, Lit("["), Sp, Lit(":"), Sp, Lit("]")>>
\* /for\s+(\w+)\s+in\s+(\d+)\s*:\s*(\d+)/g
ReForRange ==
    <<Lit("for"), Sp1, Cap(1, Plus(Word)), Sp1, Lit("in"), Sp1,
      Cap(2, Plus(Digit)), Sp, Lit(":"), Sp, Cap(3, Plus(Digit))>>
\* /\[\s*-\s*(\d+)/g  and  /\[\s*-\s*(\d)/g
ReBracketNegNum == <<Lit("["), Sp, Lit("-"), Sp, Cap(1, Plus(Digit))>>
ReBracketNeg == <<Lit("["), Sp, Lit("-"), Sp, Cap(1, One(Digit))>>
\* /\{\s*-\s*(\d+)/g
ReBraceNegNum == <<Lit("{"), Sp, Lit("-"), Sp, Cap(1, Plus(Digit))>>
\* /\b(parameter|input|output|constant)\b(?=\S)/g
ReKeyword ==
    <<WordB,
      Cap(1, Alt(<<Lit("parameter"), Lit("input"), Lit("output"),
                   Lit("constant")>>)),
      WordB, Ahead(<<NotOne(Space)>>)>>
\* /\n{3,}/g
ReBlankLines == <<AtLeast({"\n"}, 3)>>
\* /(equation|algorithm|public|protected|initial equation|initial algorithm)\n(?!\s*$)/g
ReSectionHeader ==
    <<Cap(1, Alt(<<Lit("equation"), Lit("algorithm"), Lit("public"),
                   Lit("protected"), Lit("initial equation"),
                   Lit("initial algorithm")>>)),
      Lit("\n"), NotAhead(<<Sp, Eot>>)>>
\* /\s+-(\d)/g
ReSpaceNeg == <<Sp1, Lit("-"), Cap(1, One(Digit))>>
\* /\(\s*-\s*(\d)/g
ReParenNeg == <<Lit("("), Sp, Lit("-"), Sp, Cap(1, One(Digit))>>
\* /,\s*-\s*(\d)/g
ReCommaNeg == <<Lit(","), Sp, Lit("-"), Sp, Cap(1, One(Digit))>>
\* /=\s*-\s*(\d)/g
ReEqualsNeg == <<Lit("="), Sp, Lit("-"), Sp, Cap(1, One(Digit))>>
\* /nUniShc\s+-\s+(\d)/g
ReShcMinus == <<Lit("nUniShc"), Sp1, Lit("-"), Sp1, Cap(1, One(Digit))>>
\* /\(\s*nUniShc\s+-\s+(\d)/g
ReParenShcMinus ==
    <<Lit("("), Sp, Lit("nUniShc"), Sp1, Lit("-"), Sp1, Cap(1, One(Digit))>>
\* /\s+\*\s+-\s+(\d)/g
ReTimesNeg == <<Sp1, Lit("*"), Sp1, Lit("-"), Sp1, Cap(1, One(Digit))>>
\* /\s+\/\s+-\s+(\d)/g
ReDivNeg == <<Sp1, Lit("/"), Sp1, Lit("-"), Sp1, Cap(1, One(Digit))>>
\* /\(nUniShc\s*-\s*(\d+)\s+\+\s+ratCycShc\)/g
ReShcMinusPlusRatTight ==
    <<Lit("(nUniShc"), Sp, Lit("-"), Sp, Cap(1, Plus(Digit)), Sp1, Lit("+"),
      Sp1, Lit("ratCycShc)")>>
\* /\((nUniShc|nUniHea|nUniCoo)\s*-\s*\d+\)/g
ReParenUniMinus ==
    <<Lit("("), Cap(1, UniName), Sp, Lit("-"), Sp, Plus(Digit), Lit(")")>>

----------------------------------------------------------------------------
(* The whole-text stages of formatModelica.                                *)

Rule(re, tpl) == [re |-> re, tpl |-> tpl]

\* text = text.replace(re1, tpl1); text = text.replace(re2, tpl2); ...
RECURSIVE ApplyRules(_, _)
ApplyRules(text, rules) ==
    IF Len(rules) = 0 THEN text
    ELSE ApplyRules(ReplaceAll(text, rules[1].re, rules[1].tpl), Tail(rules))

\* newline normalisation and comment repair before the split
PreprocessRules ==
    <<Rule(ReCrLf, <<"\n">>), Rule(ReBrokenComment, <<"//">>)>>

Preprocess(text) == ApplyRules(text, PreprocessRules)

\* the per-line fixes of negative numbers before the scan
PreprocessLineRules ==
    <<Rule(ReUniMinus, <<"$1", "-", "$2">>),
      Rule(ReOneMinusRat, <<"(1-ratCycShc)">>),
      Rule(ReShcMinusPlusRat, <<"(nUniShc-", "$1", " + ratCycShc)">>)>>

PreprocessLine(line) == ApplyRules(line, PreprocessLineRules)

PreprocessLines(ls) == [k \in 1..Len(ls) |-> PreprocessLine(ls[k])]

\* the rewrites of the joined text, in the order of the source
TokenRules ==
    <<Rule(ReWithin, <<"within ", "$1", ";">>),
      Rule(ReWithinLine, <<"$&", "\n">>),
      Rule(ReComma, <<", ">>),
      Rule(ReOperator, <<" ", "$1", " ">>),
      Rule(ReSubtract, <<"$1", " - ">>),
      Rule(ReNegLiteral, <<"$1", "-", "$2">>),
      Rule(ReNegation, <<"$1", "-", "$2">>),
      Rule(ReExpMinus, <<"$1", "-", "$2">>),
      Rule(ReAnnotation, <<"annotation(">>),
      Rule(ReBareColon, <<"[:]">>),
      Rule(ReColon, <<"$1", ":", "$2">>),
      Rule(ReIndexRange, <<"$1", "[", "$2", ":", "$3", "]">>),
      Rule(ReIndexAll, <<"$1", "[:]">>),
      Rule(ReForRange, <<"for ", "$1", " in ", "$2", ":", "$3">>),
      Rule(ReBracketNegNum, <<"[-", "$1">>),
      Rule(ReBraceNegNum, <<"{-", "$1">>),
      Rule(ReKeyword, <<"$1", " ">>),
      Rule(ReBlankLines, <<"\n\n">>),
      Rule(ReSectionHeader, <<"$1", "\n\n">>)>>

TokenNormalize(text) == ApplyRules(text, TokenRules)

\* the rewrites after the corrective pass, in the order of the source
CleanupRules ==
    <<Rule(ReBrokenComment, <<"//">>),
      Rule(ReSpaceNeg, <<" -", "$1">>),
      Rule(ReParenNeg, <<"(-", "$1">>),
      Rule(ReBracketNeg, <<"[-", "$1">>),
      Rule(ReCommaNeg, <<", -", "$1">>),
      Rule(ReEqualsNeg, <<"= -", "$1">>),
      Rule(ReExpMinus, <<"$1", "-", "$2">>),
      Rule(ReExpPlus, <<"$1", "+", "$2">>),
      Rule(ReShcMinus, <<"nUniShc-", "$1">>),
      Rule(ReParenShcMinus, <<"(nUniShc-", "$1">>),
      Rule(ReTimesNeg, <<" *-", "$1">>),
      Rule(ReDivNeg, <<" /-", "$1">>),
      Rule(ReShcMinusPlusRatTight, <<"(nUniShc-", "$1", " + ratCycShc)">>),
      Rule(ReParenUniMinus, <<"(", "$1", "-1)">>)>>

FinalCleanup(text) == ApplyRules(text, CleanupRules)

----------------------------------------------------------------------------
(* The classification of a trimmed line, in the priority order of the      *)
(* scan loop.                                                              *)

SectionKeywords ==
    {"equation", "initial equation", "algorithm", "initial algorithm"}

IsSectionStart(line) == line \in SectionKeywords

IsSectionEnd(line) ==
    line \in {"end", "end;", "public", "protected"} \cup SectionKeywords

IsClassEndKeyword(line) == line = "end" \/ line = "end;"

ClassKeywords ==
    {"model ", "block ", "package ", "function ", "record ", "connector ",
     "class "}

IsClassDef(line) == \E kw \in ClassKeywords : StartsWith(line, kw)

IsControlEnd(line) ==
    \/ StartsWith(line, "end if")
    \/ StartsWith(line, "end when")
    \/ StartsWith(line, "end for")

IsClassEnd(line) == StartsWith(line, "end ") /\ ~IsControlEnd(line)

IsComment(line) == StartsWith(line, "//")

IsControlOpen(line) ==
    \/ StartsWith(line, "if ") /\ EndsWith(line, "then")
    \/ StartsWith(line, "when ") /\ EndsWith(line, "then")
    \/ StartsWith(line, "for ") /\ EndsWith(line, "loop")

IsElse(line) == line = "else" \/ StartsWith(line, "elseif ")

\* every opener of the scan, `for ... loop` too
IsAnyHeader(line) == IsControlOpen(line)

\* the header lines the corrective pass rewrites: no `for ... loop`
IsIfWhenHeader(line) ==
    (StartsWith(line, "if ") \/ StartsWith(line, "when "))
    /\ EndsWith(line, "then")

\* line.split(' ')[0]
RECURSIVE FirstWord(_)
FirstWord(line) ==
    IF line = "" \/ Char(line, 1) = " " THEN ""
    ELSE Char(line, 1) \o FirstWord(Tail(line))

\* a look at the line itself: it ends with ( or ,
EndsOpenItself(ls, i) ==
    EndsWith(Trim(ls[i]), "(") \/ EndsWith(Trim(ls[i]), ",")

\* the look-back of the scan: the previous raw line, trimmed, ends with ( or ,
IsContinuation(ls, i) ==
    i > 1 /\ (EndsWith(Trim(ls[i - 1]), "(") \/ EndsWith(Trim(ls[i - 1]), ","))

\* the branch of the scan loop that line i takes
LineClass(ls, i, inSection) ==
    LET line == Trim(ls[i]) IN
    IF line = "" THEN "blank"
    ELSE IF IsSectionStart(line) THEN "sectionStart"
    ELSE IF IsSectionEnd(line) THEN "sectionEnd"
    ELSE IF IsClassDef(line) THEN "classDef"
    ELSE IF IsClassEnd(line) THEN "classEnd"
    ELSE IF ~inSection THEN "other"
    ELSE IF IsComment(line) THEN "comment"
    ELSE IF IsControlOpen(line) THEN "controlOpen"
    ELSE IF IsElse(line) THEN "else"
    ELSE IF IsControlEnd(line) THEN "controlEnd"
    ELSE IF IsContinuation(ls, i) THEN "continuation"
    ELSE "statement"

\* the branch of the corrective pass that a line takes
FixClass(raw, inEqSection) ==
    LET line == Trim(raw) IN
    IF IsSectionStart(line) THEN "sectionStart"
    ELSE IF inEqSection /\ line \in {"end", "end;", "public", "protected"}
         THEN "sectionEnd"
    ELSE IF ~inEqSection THEN "keep"
    ELSE IF IsIfWhenHeader(line) THEN "controlOpen"
    ELSE IF IsElse(line) THEN "else"
    ELSE IF IsControlEnd(line) THEN "controlEnd"
    ELSE "keep"

----------------------------------------------------------------------------
(* The state.  formatModelica keeps all its state in local variables; an   *)
(* activation of the function is a frame fr[c] holding them, one per call  *)
(* slot c of the host.  returned is the history of the completed calls.    *)

VARIABLES fr, returned

vars == <<fr, returned>>

\* the call slots of the host
Calls == {1, 2}

\* how many calls a slot makes, one after the other
MaxCalls == 2

\* the longest body of an input, in lines
MaxLines == 3

\* the longest run of blank lines of an input
MaxBlankRun == 4

\* the values of the tabWidth option
TabWidths == {2, 4}

\* the sequences of at most n lines of the set alphabet
RECURSIVE LineSeqs(_, _)
LineSeqs(alphabet, n) ==
    IF n = 0 THEN {<<>>}
    ELSE LET shorter == LineSeqs(alphabet, n - 1) IN
         shorter \cup {Append(ls, l) : ls \in {q \in shorter : Len(q) = n - 1},
                                       l \in alphabet}

\* n blank lines
RECURSIVE BlankLines(_)
BlankLines(n) == IF n = 0 THEN <<>> ELSE <<"">> \o BlankLines(n - 1)

\* control structures, balanced or not, in and outside of a section of a
\* class
ControlLines == {"if a then", "else", "end if;", "end A;", "x = 1;"}

ControlPrefixes ==
    {<<>>, <<"equation">>, <<"model A", "equation">>,
     <<"package P", "model A", "algorithm">>}

ControlInputs ==
    {Join(pre \o body) : pre \in ControlPrefixes,
                         body \in LineSeqs(ControlLines, MaxLines)} \ {""}

\* the inputs that are also formatted with a tabWidth other than the default:
\* the control structures in a class declared inside a package
WideInputs ==
    {Join(<<"package P", "model A", "algorithm">> \o body) :
        body \in LineSeqs(ControlLines, MaxLines)}

\* statements, comments and keyword lines
TextLines == {"// c", "f(a,", "x = 1 - 2;", "end;", "equation"}

TextInputs == {Join(body) : body \in LineSeqs(TextLines, MaxLines)} \ {""}

\* two lines with a run of blank lines between them
BlankRunInputs ==
    {Join(<<a>> \o BlankLines(n) \o <<b>>) :
        a \in {"equation", "public", "x = 1 - 2;"},
        b \in {"x = 1 - 2;", "end A;"},
        n \in 0..MaxBlankRun}

\* two texts that between them take every branch of the scan and of the
\* corrective pass; the first leaves the scan two levels deep
SampleOpen ==
    Join(<<"model A", "  Real x;", "equation", "when a then", "f(a,", "b);">>)

SampleClose ==
    Join(<<"initial algorithm", "x = 1 - 2;", "// c", "elseif b then", "",
           "end when;", "end A;", "end;">>)

ConcInputs == {SampleOpen, SampleClose}

\* tabWidth = 2 unless the options say otherwise
DefaultTabWidth == 2

Inputs == ControlInputs \cup TextInputs \cup BlankRunInputs \cup ConcInputs

\* the calls of the host: a text and the tabWidth option
Requests ==
    {<<t, DefaultTabWidth>> : t \in Inputs}
    \cup {<<t, tw>> : t \in WideInputs, tw \in TabWidths \ {DefaultTabWidth}}

\* control blocks left open at the end of a section, for loops, and control
\* keywords after a line that ends with a comma
NestLines ==
    {"if a then", "for i in r loop", "end for;", "f(a,", "end;", "algorithm"}

NestInputs ==
    {Join(<<"equation">> \o body) : body \in LineSeqs(NestLines, MaxLines)}

\* the texts whose scan is followed line by line
ScanInputs == ControlInputs \cup NestInputs \cup ConcInputs

ScanRequests ==
    {<<t, DefaultTabWidth>> : t \in ScanInputs}
    \cup {<<t, tw>> : t \in NestInputs, tw \in TabWidths \ {DefaultTabWidth}}

\* a level that outlives the call (indentLevel kept outside the function)
KeptLevel(previous) == previous

\* let indentLevel = 0: whatever an earlier activation left is not seen
StartLevel(previous) == 0

\* the locals of an activation entered with text t (source lines 34-58)
Entered(c, t, tw) ==
    LET text == Preprocess(t) IN
    [pc |-> "scan", input |-> t, tabWidth |-> tw, text |-> text,
     lines |-> PreprocessLines(Split(text)), result |-> <<>>, i |-> 1,
     indentLevel |-> StartLevel(fr[c].indentLevel),
     inEquation |-> FALSE, inAlgorithm |-> FALSE, controlBlocks |-> <<>>,
     finalLines |-> <<>>, inEqSection |-> FALSE, eqIndentLevel |-> 0,
     out |-> "", calls |-> fr[c].calls + 1]

Idle ==
    [pc |-> "idle", input |-> "", tabWidth |-> DefaultTabWidth, text |-> "",
     lines |-> <<>>, result |-> <<>>, i |-> 1, indentLevel |-> 0,
     inEquation |-> FALSE, inAlgorithm |-> FALSE, controlBlocks |-> <<>>,
     finalLines |-> <<>>, inEqSection |-> FALSE, eqIndentLevel |-> 0,
     out |-> "", calls |-> 0]

Init == fr = [c \in Calls |-> Idle] /\ returned = {}

\* what a completed call leaves in the history
Outcome(f, thrown, out) ==
    [input |-> f.input, tabWidth |-> f.tabWidth, thrown |-> thrown, out |-> out]

\* the host calls formatModelica(t, {tabWidth: tw}) in slot c
Call(c, t, tw) ==
    /\ fr[c].pc \in {"idle", "done", "thrown"}
    /\ fr[c].calls < MaxCalls
    /\ fr' = [fr EXCEPT ![c] = Entered(c, t, tw)]
    /\ UNCHANGED returned

\* the first call of a slot, on any input
Format(c) ==
    /\ fr[c].calls = 0
    /\ \E rq \in Requests : Call(c, rq[1], rq[2])

\* the host formats the text the previous call returned
Reformat(c) ==
    /\ fr[c].pc = "done"
    /\ Call(c, fr[c].out, fr[c].tabWidth)

\* any call of a slot, whatever it did before
FormatAny(c) == \E t \in ConcInputs : Call(c, t, DefaultTabWidth)

\* one call of a slot, its scan followed line by line
FormatOnce(c) ==
    /\ fr[c].calls = 0
    /\ \E rq \in ScanRequests : Call(c, rq[1], rq[2])

----------------------------------------------------------------------------
(* The scan loop (source lines 60-179), one action per branch.             *)

\* the scan is at a line that takes branch cls
AtLine(c, cls) ==
    /\ fr[c].pc = "scan"
    /\ fr[c].i <= Len(fr[c].lines)
    /\ LineClass(fr[c].lines, fr[c].i,
                 fr[c].inEquation \/ fr[c].inAlgorithm) = cls

CurLine(c) == Trim(fr[c].lines[fr[c].i])

\* result.push(indent.repeat(level) + line); continue -- with f the locals
\* as the branch has set them; a negative level makes repeat throw
Emit(c, f, level, line) ==
    IF RepeatThrows(level)
    THEN /\ fr' = [fr EXCEPT ![c] = [f EXCEPT !.pc = "thrown"]]
         /\ returned' = returned \cup {Outcome(f, TRUE, "RangeError")}
    ELSE /\ fr' = [fr EXCEPT ![c] =
                     [f EXCEPT !.result = Append(@, Spaces(f.tabWidth * level) \o line),
                               !.i = @ + 1]]
         /\ UNCHANGED returned

\* lines 64-67
Blank(c) ==
    /\ AtLine(c, "blank")
    /\ fr' = [fr EXCEPT ![c].result = Append(@, ""), ![c].i = @ + 1]
    /\ UNCHANGED returned

\* a test of the first word too: an `initial` section of either kind counts
\* as an equation section
InEquationAfterInitial(line) ==
    Includes(line, "equation") \/ StartsWith(line, "initial")

\* inEquation = line.includes('equation')
InEquationAfter(line) == Includes(line, "equation")

\* inAlgorithm = line.includes('algorithm')
InAlgorithmAfter(line) == Includes(line, "algorithm")

\* lines 70-77
SectionStart(c) ==
    /\ AtLine(c, "sectionStart")
    /\ Emit(c, [fr[c] EXCEPT !.inEquation = InEquationAfter(CurLine(c)),
                             !.inAlgorithm = InAlgorithmAfter(CurLine(c))],
            fr[c].indentLevel, CurLine(c))

\* Math.max(0, n)
Max0(n) == IF n > 0 THEN n ELSE 0

\* lines 80-92
SectionEnd(c) ==
    /\ AtLine(c, "sectionEnd")
    /\ LET level == IF IsClassEndKeyword(CurLine(c))
                    THEN Max0(fr[c].indentLevel - 1)
                    ELSE fr[c].indentLevel
       IN Emit(c, [fr[c] EXCEPT !.indentLevel = level,
                                !.inEquation = InEquationAfter(CurLine(c)),
                                !.inAlgorithm = InAlgorithmAfter(CurLine(c))],
               level, CurLine(c))

\* lines 95-102: the line is pushed before the level is incremented
ClassDef(c) ==
    /\ AtLine(c, "classDef")
    /\ Emit(c, [fr[c] EXCEPT !.indentLevel = @ + 1], fr[c].indentLevel,
            CurLine(c))

\* a named terminator that ends the section as a bare end does
ClassEndClosesSection(c) ==
    /\ AtLine(c, "classEnd")
    /\ Emit(c, [fr[c] EXCEPT !.indentLevel = Max0(@ - 1),
                             !.inEquation = FALSE, !.inAlgorithm = FALSE],
            Max0(fr[c].indentLevel - 1), CurLine(c))

\* lines 105-110
ClassEnd(c) ==
    /\ AtLine(c, "classEnd")
    /\ Emit(c, [fr[c] EXCEPT !.indentLevel = Max0(@ - 1)],
            Max0(fr[c].indentLevel - 1), CurLine(c))

\* lines 115-118
Comment(c) ==
    /\ AtLine(c, "comment")
    /\ Emit(c, fr[c], fr[c].indentLevel + 1, CurLine(c))

\* lines 121-130
ControlOpen(c) ==
    /\ AtLine(c, "controlOpen")
    /\ Emit(c, [fr[c] EXCEPT
                  !.controlBlocks =
                      Append(@, [type |-> FirstWord(CurLine(c)),
                                 level |-> fr[c].indentLevel + 1]),
                  !.indentLevel = @ + 1],
            fr[c].indentLevel + 1, CurLine(c))

\* no realignment: the else/elseif line at the level the scan is at
ElseLevelCurrent(f) == f.indentLevel

\* the level an else/elseif line is realigned to: the top frame's level
ElseLevel(f) == f.controlBlocks[Len(f.controlBlocks)].level

\* an unmatched else or closer emitted like a statement, one level deeper
FallbackLevelStatement(level) == level + 1

\* the level of an else or closer line when the stack is empty: the current
\* one
FallbackLevel(level) == level

\* lines 133-143
Else(c) ==
    /\ AtLine(c, "else")
    /\ IF Len(fr[c].controlBlocks) > 0
       THEN Emit(c, [fr[c] EXCEPT !.indentLevel = ElseLevel(fr[c])],
                 ElseLevel(fr[c]), CurLine(c))
       ELSE Emit(c, fr[c], FallbackLevel(fr[c].indentLevel), CurLine(c))

\* a closer that pops the frame and keeps the level
CloseLevelKept(level) == level

\* the level after a control closer popped a frame
CloseLevel(level) == level - 1

\* lines 146-154
ControlEnd(c) ==
    /\ AtLine(c, "controlEnd")
    /\ IF Len(fr[c].controlBlocks) > 0
       THEN Emit(c, [fr[c] EXCEPT
                       !.controlBlocks = SubSeq(@, 1, Len(@) - 1),
                       !.indentLevel = CloseLevel(@)],
                 CloseLevel(fr[c].indentLevel), CurLine(c))
       ELSE Emit(c, fr[c], FallbackLevel(fr[c].indentLevel), CurLine(c))

\* lines 158-165
Continuation(c) ==
    /\ AtLine(c, "continuation")
    /\ Emit(c, fr[c], fr[c].indentLevel + 2, CurLine(c))

\* a statement at the level of the header
StatementLevelFlat(level) == level

\* the level of a statement of a section: indentLevel + 1
StatementLevel(level) == level + 1

\* lines 168-174 (the second comment test is never true: comments took the
\* first one)
Statement(c) ==
    /\ AtLine(c, "statement")
    /\ Emit(c, fr[c], StatementLevel(fr[c].indentLevel), CurLine(c))

\* line 178
OtherLine(c) ==
    /\ AtLine(c, "other")
    /\ Emit(c, fr[c], fr[c].indentLevel, CurLine(c))

\* lines 182-235: the scan is over; join, rewrite the text, split again
Normalize(c) ==
    /\ fr[c].pc = "scan"
    /\ fr[c].i > Len(fr[c].lines)
    /\ LET text == TokenNormalize(Join(fr[c].result)) IN
       fr' = [fr EXCEPT ![c].pc = "fix", ![c].text = text,
                        ![c].finalLines = Split(text), ![c].i = 1,
                        ![c].inEqSection = FALSE, ![c].eqIndentLevel = 0]
    /\ UNCHANGED returned

----------------------------------------------------------------------------
(* The corrective pass (source lines 237-280), one action per branch.      *)

AtFinalLine(c, cls) ==
    /\ fr[c].pc = "fix"
    /\ fr[c].i <= Len(fr[c].finalLines)
    /\ FixClass(fr[c].finalLines[fr[c].i], fr[c].inEqSection) = cls

\* eqIndentLevel = indent.length / tabWidth; the scan emits a header at a
\* multiple of tabWidth, so the division is exact
HeaderLevel(width, tabWidth) == width \div tabWidth

\* the line at the level of the header, not one deeper
RealignedAtHeader(f) ==
    Spaces(f.eqIndentLevel * f.tabWidth) \o Trim(f.finalLines[f.i])

\* ' '.repeat((eqIndentLevel + 1) * tabWidth) + line
Realigned(f) ==
    Spaces((f.eqIndentLevel + 1) * f.tabWidth) \o Trim(f.finalLines[f.i])

\* lines 242-247
FixSectionStart(c) ==
    /\ AtFinalLine(c, "sectionStart")
    /\ fr' = [fr EXCEPT
                ![c].inEqSection = TRUE,
                ![c].eqIndentLevel =
                    HeaderLevel(LeadWidth(fr[c].finalLines[fr[c].i]),
                                fr[c].tabWidth),
                ![c].i = @ + 1]
    /\ UNCHANGED returned

\* lines 250-254
FixSectionEnd(c) ==
    /\ AtFinalLine(c, "sectionEnd")
    /\ fr' = [fr EXCEPT ![c].inEqSection = FALSE, ![c].i = @ + 1]
    /\ UNCHANGED returned

\* finalLines[i] = ...; continue
Rewrite(c) ==
    /\ fr' = [fr EXCEPT ![c].finalLines[fr[c].i] = Realigned(fr[c]),
                        ![c].i = @ + 1]
    /\ UNCHANGED returned

\* lines 259-264
FixControlOpen(c) == AtFinalLine(c, "controlOpen") /\ Rewrite(c)

\* lines 267-271
FixElse(c) == AtFinalLine(c, "else") /\ Rewrite(c)

\* lines 274-278
FixControlEnd(c) == AtFinalLine(c, "controlEnd") /\ Rewrite(c)

\* a pass that stores the trimmed line back when no branch applies
FixKeepTrimmed(c) ==
    /\ AtFinalLine(c, "keep")
    /\ fr' = [fr EXCEPT ![c].finalLines[fr[c].i] = Trim(@), ![c].i = @ + 1]
    /\ UNCHANGED returned

\* no branch applies: the line is left as it is
FixKeep(c) ==
    /\ AtFinalLine(c, "keep")
    /\ fr' = [fr EXCEPT ![c].i = @ + 1]
    /\ UNCHANGED returned

\* lines 282-306: join, clean up, return text
Return(c) ==
    /\ fr[c].pc = "fix"
    /\ fr[c].i > Len(fr[c].finalLines)
    /\ LET text == FinalCleanup(Join(fr[c].finalLines)) IN
       /\ fr' = [fr EXCEPT ![c].pc = "done", ![c].text = text, ![c].out = text]
       /\ returned' = returned \cup {Outcome(fr[c], FALSE, text)}

----------------------------------------------------------------------------
\* a step of the activation in slot c
Step(c) ==
    \/ Blank(c) \/ SectionStart(c) \/ SectionEnd(c) \/ ClassDef(c)
    \/ ClassEnd(c) \/ Comment(c) \/ ControlOpen(c) \/ Else(c)
    \/ ControlEnd(c) \/ Continuation(c) \/ Statement(c) \/ OtherLine(c)
    \/ Normalize(c)
    \/ FixSectionStart(c) \/ FixSectionEnd(c) \/ FixControlOpen(c)
    \/ FixElse(c) \/ FixControlEnd(c) \/ FixKeep(c)
    \/ Return(c)

\* one file: formatted, and formatted again
Next == \E c \in {1} : Format(c) \/ Reformat(c) \/ Step(c)

Spec == Init /\ [][Next]_vars

\* two slots, each formatting texts one after the other, their steps
\* interleaved in any order
NextConc == \E c \in Calls : FormatAny(c) \/ Step(c)

SpecConc == Init /\ [][NextConc]_vars

\* one file, formatted once
NextScan == \E c \in {1} : FormatOnce(c) \/ Step(c)

SpecScan == Init /\ [][NextScan]_vars
----------------------------------------------------------------------------
(* Properties.  Helpers that read a text the way a reader does, not the    *)
(* way the scan does.                                                      *)

Done(c) == fr[c].pc = "done"

\* the corrective pass of slot c is over and its text not yet joined
Fixed(c) == fr[c].pc = "fix" /\ fr[c].i > Len(fr[c].finalLines)

IsSectionClose(line) == line \in {"end", "end;", "public", "protected"}

\* the index of the most recent section header line before line j, 0 if none
HeaderBefore(ls, j) ==
    LET hs == {k \in 1..(j - 1) : IsSectionStart(Trim(ls[k]))} IN
    IF hs = {} THEN 0 ELSE CHOOSE k \in hs : \A m \in hs : m <= k

\* line j lies inside a section: after a header with no end, end;, public or
\* protected line since
InsideSection(ls, j) ==
    /\ HeaderBefore(ls, j) > 0
    /\ \A k \in (HeaderBefore(ls, j) + 1)..(j - 1) : ~IsSectionClose(Trim(ls[k]))

IsControlKeywordLine(line) ==
    IsIfWhenHeader(line) \/ IsElse(line) \/ IsControlEnd(line)

\* the indices of the control blocks of the current section that are open
\* after line j, innermost last
RECURSIVE OpenBlocks(_, _)
OpenBlocks(ls, j) ==
    IF j = 0 THEN <<>>
    ELSE LET before == OpenBlocks(ls, j - 1)
             line == Trim(ls[j])
         IN IF IsSectionStart(line) \/ IsSectionClose(line) THEN <<>>
            ELSE IF ~InsideSection(ls, j) THEN before
            ELSE IF IsControlOpen(line) THEN Append(before, j)
            ELSE IF IsControlEnd(line) /\ Len(before) > 0
                 THEN SubSeq(before, 1, Len(before) - 1)
            ELSE before

\* line j is the else/elseif line of the if block headed by line i
ElseOfIf(ls, i, j) ==
    /\ i < j
    /\ IsElse(Trim(ls[j]))
    /\ StartsWith(Trim(ls[i]), "if ")
    /\ InsideSection(ls, j)
    /\ Len(OpenBlocks(ls, j - 1)) > 0
    /\ i = OpenBlocks(ls, j - 1)[Len(OpenBlocks(ls, j - 1))]

\* the lengths of the runs of blank lines before each non-blank line of ls
RECURSIVE BlankRuns(_, _)
BlankRuns(ls, run) ==
    IF Len(ls) = 0 THEN <<>>
    ELSE IF Trim(ls[1]) = "" THEN BlankRuns(Tail(ls), run + 1)
    ELSE <<run>> \o BlankRuns(Tail(ls), 0)

----------------------------------------------------------------------------
\* C1: for every input text formatModelica returns text; it never throws.
NeverThrows == \A c \in Calls : fr[c].pc # "thrown"

\* C2: formatting is idempotent: a call whose input is the text another call
\* returned (same options) returns that text unchanged.
Idempotent ==
    \A r1, r2 \in returned :
        (~r1.thrown /\ ~r2.thrown /\ r2.input = r1.out
         /\ r2.tabWidth = r1.tabWidth)
        => r2.out = r1.out

\* C3: after the corrective pass every if/when header, else/elseif and
\* end if/when/for line inside a section has exactly
\* (h / tabWidth + 1) * tabWidth leading spaces, h being the leading width of
\* the most recent section header (a multiple of tabWidth), whatever its
\* nesting depth.
ControlLinesFlattened ==
    \A c \in Calls :
        Fixed(c) =>
            \A j \in 1..Len(fr[c].finalLines) :
                LET ls == fr[c].finalLines
                    h == LeadWidth(ls[HeaderBefore(ls, j)])
                IN (InsideSection(ls, j) /\ IsControlKeywordLine(Trim(ls[j])))
                   => /\ h % fr[c].tabWidth = 0
                      /\ LeadWidth(ls[j])
                           = (h \div fr[c].tabWidth + 1) * fr[c].tabWidth

\* C3 happens: after the pass an if header that the scan had put two levels
\* below a header that is itself indented stands one level below it, next to
\* the header of the block around it.
NestedFlattened ==
    \E c \in Calls :
        /\ Fixed(c)
        /\ \E i, j \in 1..Len(fr[c].finalLines) :
              LET ls == fr[c].finalLines
                  h == LeadWidth(ls[HeaderBefore(ls, j)])
              IN /\ i < j
                 /\ InsideSection(ls, i) /\ InsideSection(ls, j)
                 /\ IsIfWhenHeader(Trim(ls[i])) /\ IsIfWhenHeader(Trim(ls[j]))
                 /\ OpenBlocks(ls, j - 1) = <<i>>
                 /\ h > 0
                 /\ LeadWidth(Split(fr[c].text)[j]) = h + 2 * fr[c].tabWidth
                 /\ LeadWidth(ls[j]) = LeadWidth(ls[i])

\* C4: inside a section the else/elseif line of an if block has the
\* indentation of the if header it belongs to, in the lines the scan emits
\* (where the level is reset to the level of the top frame) and in the text
\* returned.
ElseAlignedWithIf ==
    \A c \in Calls :
        /\ \A i, j \in 1..Len(fr[c].result) :
              ElseOfIf(fr[c].lines, i, j)
              => LeadWidth(fr[c].result[j]) = LeadWidth(fr[c].result[i])
        /\ Done(c) =>
              LET ls == Split(fr[c].out) IN
              \A i, j \in 1..Len(ls) :
                  ElseOfIf(ls, i, j) => LeadWidth(ls[j]) = LeadWidth(ls[i])

\* C4 happens: a text is returned in which an else line stands below the
\* body of its if block, the level having been lowered by a class terminator
\* between the two.
ElseAfterBody ==
    \E c \in Calls :
        /\ Done(c)
        /\ \E i, j \in 1..Len(fr[c].lines) :
              /\ ElseOfIf(fr[c].lines, i, j)
              /\ j > i + 1
              /\ IsClassEnd(Trim(fr[c].lines[j - 1]))
        /\ \E i, j \in 1..Len(Split(fr[c].out)) :
              ElseOfIf(Split(fr[c].out), i, j)

\* line j of ls is a plain statement of a section
PlainStatement(ls, j) == LineClass(ls, j, TRUE) = "statement"

\* lines i..k of ls are a class: its declaration, one section header, plain
\* statements and the named terminator
ClassWithSection(ls, i, k) ==
    /\ i + 2 < k
    /\ IsClassDef(Trim(ls[i]))
    /\ IsSectionStart(Trim(ls[i + 1]))
    /\ \A j \in (i + 2)..(k - 1) : PlainStatement(ls, j)
    /\ IsClassEnd(Trim(ls[k]))

\* C5: for a class declared at level L with one section header and plain
\* statements, the header is emitted at level L+1, each statement at L+2 and
\* the named terminator at L; when the class is the whole input (L = 0) the
\* text returned has these indentations too.
ClassLayout ==
    \A c \in Calls :
        LET ls == fr[c].lines
            tw == fr[c].tabWidth
            res == fr[c].result
        IN /\ \A i, k \in 1..Len(res) :
                 ClassWithSection(ls, i, k)
                 => LET w == LeadWidth(res[i]) IN
                    /\ LeadWidth(res[i + 1]) = w + tw
                    /\ \A j \in (i + 2)..(k - 1) : LeadWidth(res[j]) = w + 2 * tw
                    /\ LeadWidth(res[k]) = w
           /\ (Done(c) /\ Len(ls) >= 1 /\ ClassWithSection(ls, 1, Len(ls)))
              => LET out == Split(fr[c].out) IN
                 /\ Len(out) = Len(ls) + 1
                 /\ LeadWidth(out[1]) = 0
                 /\ LeadWidth(out[2]) = tw
                 /\ out[3] = ""
                 /\ \A j \in 4..(Len(out) - 1) : LeadWidth(out[j]) = 2 * tw
                 /\ LeadWidth(out[Len(out)]) = 0

\* C5 happens: with tabWidth 4 a text is returned for a class that is
\* declared inside another one (L = 1) and that the scan has emitted.
NestedClassEmitted ==
    \E c \in Calls :
        /\ Done(c)
        /\ fr[c].tabWidth = 4
        /\ \E i, k \in 1..Len(fr[c].result) :
              /\ ClassWithSection(fr[c].lines, i, k)
              /\ LeadWidth(fr[c].result[i]) = fr[c].tabWidth

\* C6: the input `x = 1 - 2;` is returned as `x = 1 - 2;`.
SubtractionKept ==
    \A r \in returned :
        (r.input = "x = 1 - 2;" /\ ~r.thrown) => r.out = "x = 1 - 2;"

\* C7: a run of three or more blank lines in the input appears in the output
\* as exactly one blank line (stated for the calls that keep the number of
\* non-blank lines, so that the runs correspond).
BlankRunsCollapsed ==
    \A r \in returned :
        LET runsIn == BlankRuns(Split(r.input), 0)
            runsOut == BlankRuns(Split(r.out), 0)
        IN (~r.thrown /\ Len(runsIn) = Len(runsOut))
           => \A g \in 1..Len(runsIn) : runsIn[g] >= 3 => runsOut[g] = 1

\* C8: every // comment line of the input is a line of the output, its text
\* unchanged; only its indentation may differ.
CommentsPreserved ==
    \A r \in returned :
        ~r.thrown =>
            \A j \in 1..Len(Split(r.input)) :
                LET line == Trim(Split(r.input)[j]) IN
                IsComment(line)
                => \E k \in 1..Len(Split(r.out)) : Trim(Split(r.out)[k]) = line

\* C9: every call starts with indent level 0, no active section and an empty
\* stack, and what a call returns depends on its text and options alone,
\* whatever calls ran before it in its slot or run interleaved with it in the
\* other slot.
CallsIndependent ==
    /\ \A c \in Calls :
          (fr[c].pc = "scan" /\ fr[c].i = 1 /\ fr[c].result = <<>>)
          => /\ fr[c].indentLevel = 0
             /\ ~fr[c].inEquation /\ ~fr[c].inAlgorithm
             /\ fr[c].controlBlocks = <<>>
    /\ \A r1, r2 \in returned :
          (r1.input = r2.input /\ r1.tabWidth = r2.tabWidth) => r1 = r2

\* C9 happens: slot 1 has returned from its second call, made after a call
\* that left the scan two levels deep, while slot 2, also in its second call,
\* is in the middle of the corrective pass on the same text.
SameTextTwice ==
    /\ Done(1) /\ fr[1].calls = 2
    /\ fr[2].pc = "fix" /\ fr[2].calls = 2 /\ fr[2].i > 1
    /\ fr[2].input = fr[1].input
    /\ fr[1].input = SampleClose
    /\ \E r \in returned : r.input = SampleOpen

\* C10: the indent level is never negative.
LevelNonNegative == \A c \in Calls : fr[c].indentLevel >= 0

\* a section kind is active in the scan of slot c
InSection(c) == fr[c].inEquation \/ fr[c].inAlgorithm

\* C11: whenever no section is active -- before the first header, or after a
\* bare end, end;, public or protected line -- the control-block stack is
\* empty.
StackEmptyOutsideSection ==
    \A c \in Calls :
        (fr[c].pc = "scan" /\ ~InSection(c)) => fr[c].controlBlocks = <<>>

\* C12: while a section is active, the depth of the control-block stack is
\* the number of control blocks opened in the current section and not yet
\* closed; blocks left open in an earlier section are not counted.
StackDepthMatchesSection ==
    \A c \in Calls :
        (fr[c].pc = "scan" /\ InSection(c))
        => Len(fr[c].controlBlocks) = Len(OpenBlocks(fr[c].lines, fr[c].i - 1))

\* the keyword lines a blank line is inserted after
HeaderKeywords == SectionKeywords \cup {"public", "protected"}

\* C13: in the output, every section-header keyword line that has a
\* non-blank line somewhere after it is followed by exactly one blank line.
HeaderThenOneBlank ==
    \A r \in returned :
        ~r.thrown =>
            LET ls == Split(r.out) IN
            \A j \in 1..Len(ls) :
                (/\ Trim(ls[j]) \in HeaderKeywords
                 /\ \E k \in (j + 1)..Len(ls) : Trim(ls[k]) # "")
                => /\ Trim(ls[j + 1]) = ""
                   /\ Trim(ls[j + 2]) # ""

\* the scan of slot c is at a line, which it has still to classify
Scanning(c) == fr[c].pc = "scan" /\ fr[c].i <= Len(fr[c].lines)

\* the step of slot c emits its line at the given level and changes nothing
\* else: not the level, the section flags or the stack, and nothing is thrown
EmitsOnly(c, level) ==
    /\ fr'[c] = [fr[c] EXCEPT
                    !.result = Append(@, Spaces(fr[c].tabWidth * level)
                                         \o Trim(fr[c].lines[fr[c].i])),
                    !.i = @ + 1]
    /\ returned' = returned

\* C14: with a section active and the control-block stack empty, an else,
\* elseif, end if, end when or end for line is emitted at the current indent
\* level and leaves the level, the section flags and the stack as they
\* were; nothing is thrown.
UnbalancedIsNoOp ==
    [][\A c \in Calls :
          (/\ Scanning(c) /\ InSection(c)
           /\ fr[c].controlBlocks = <<>>
           /\ \/ IsElse(Trim(fr[c].lines[fr[c].i]))
              \/ IsControlEnd(Trim(fr[c].lines[fr[c].i]))
           /\ fr'[c] # fr[c])
          => EmitsOnly(c, fr[c].indentLevel)]_vars

\* a closer right after the section header has been emitted
UnbalancedCloserEmitted ==
    \E c \in Calls :
        /\ fr[c].pc = "scan" /\ fr[c].i = 3
        /\ IsSectionStart(Trim(fr[c].lines[1]))
        /\ IsControlEnd(Trim(fr[c].lines[2]))
        /\ fr[c].controlBlocks = <<>> /\ fr[c].indentLevel = 0
        /\ fr[c].result[2] = Trim(fr[c].lines[2])

\* C15: inEquation and inAlgorithm are never both true, and both are false
\* right after a bare end, end;, public or protected line.
OneSectionKind ==
    \A c \in Calls :
        /\ ~(fr[c].inEquation /\ fr[c].inAlgorithm)
        /\ (/\ fr[c].pc = "scan" /\ fr[c].i > 1
            /\ IsSectionClose(Trim(fr[c].lines[fr[c].i - 1])))
           => ~InSection(c)

\* a section has been entered and the next line has ended it
SectionEntered ==
    \E c \in Calls :
        /\ fr[c].pc = "scan" /\ fr[c].i > 2
        /\ IsSectionStart(Trim(fr[c].lines[fr[c].i - 2]))
        /\ IsSectionClose(Trim(fr[c].lines[fr[c].i - 1]))
        /\ ~InSection(c)

\* no rule of higher priority than the continuation test takes the line
Unmatched(line) ==
    /\ line # ""
    /\ ~IsSectionStart(line) /\ ~IsSectionEnd(line)
    /\ ~IsClassDef(line) /\ ~IsClassEnd(line)
    /\ ~IsComment(line) /\ ~IsControlOpen(line)
    /\ ~IsElse(line) /\ ~IsControlEnd(line)

\* line j of ls follows a physical line that, trimmed, ends with ( or ,
FollowsOpenLine(ls, j) ==
    /\ j > 1
    /\ \E ch \in {"(", ","} :
          /\ Len(Trim(ls[j - 1])) > 0
          /\ Char(Trim(ls[j - 1]), Len(Trim(ls[j - 1]))) = ch

\* C16: in an active section a line no higher-priority rule takes is
\* emitted at indentLevel + 2, the engine state unchanged, when the physical
\* line before it ends with ( or , and at indentLevel + 1 otherwise; an
\* opener, else or closer after such a line still pushes a frame, realigns
\* to the top frame or pops one.
ContinuationDeeper ==
    [][\A c \in Calls :
          (Scanning(c) /\ InSection(c) /\ fr'[c] # fr[c]) =>
              LET line == Trim(fr[c].lines[fr[c].i])
                  follows == FollowsOpenLine(fr[c].lines, fr[c].i)
                  depth == Len(fr[c].controlBlocks)
              IN /\ (Unmatched(line) /\ follows)
                    => EmitsOnly(c, fr[c].indentLevel + 2)
                 /\ (Unmatched(line) /\ ~follows)
                    => EmitsOnly(c, fr[c].indentLevel + 1)
                 /\ (follows /\ IsControlOpen(line) /\ ~IsClassDef(line))
                    => Len(fr'[c].controlBlocks) = depth + 1
                 /\ (follows /\ IsControlEnd(line) /\ depth > 0)
                    => Len(fr'[c].controlBlocks) = depth - 1
                 /\ (follows /\ IsElse(line) /\ depth > 0)
                    => fr'[c].indentLevel = fr[c].controlBlocks[depth].level
      ]_vars

\* a continuation line has been emitted two levels deep and the opener that
\* follows it, after a comma too, has pushed its frame
ContinuationThenOpener ==
    \E c \in Calls :
        /\ fr[c].pc = "scan" /\ fr[c].i > 3 /\ InSection(c)
        /\ Unmatched(Trim(fr[c].lines[fr[c].i - 2]))
        /\ FollowsOpenLine(fr[c].lines, fr[c].i - 2)
        /\ FollowsOpenLine(fr[c].lines, fr[c].i - 1)
        /\ IsControlOpen(Trim(fr[c].lines[fr[c].i - 1]))
        /\ Len(fr[c].controlBlocks) = 1
        /\ fr[c].result[fr[c].i - 2] =
               Spaces(fr[c].tabWidth * (fr[c].indentLevel + 1))
               \o Trim(fr[c].lines[fr[c].i - 2])

\* line h of ls is the first section header of the text, and the lines after
\* it up to line i - 1 are a well-nested sequence of control openers,
\* else/elseif lines, closers, statements, comments and blank lines: every
\* else and every closer has an open block to belong to
WellNested(ls, h, i) ==
    /\ h \in 1..(i - 1)
    /\ IsSectionStart(Trim(ls[h]))
    /\ \A j \in 1..(h - 1) : ~IsSectionStart(Trim(ls[j]))
    /\ \A j \in (h + 1)..(i - 1) :
          LET line == Trim(ls[j]) IN
          /\ \/ line = "" \/ IsComment(line) \/ IsControlOpen(line)
             \/ IsElse(line) \/ IsControlEnd(line) \/ Unmatched(line)
          /\ (IsElse(line) \/ IsControlEnd(line))
             => Len(OpenBlocks(ls, j - 1)) > 0

\* the level the section header at line h was emitted at
BaseLevel(c, h) == LeadWidth(fr[c].result[h]) \div fr[c].tabWidth

\* C17: inside one section, along a well-nested sequence of openers,
\* else/elseif lines, closers, statements, comments and blank lines, the
\* indent level is the level of the header plus the number of open blocks
\* and the k-th frame records the level of the header plus k: so the level
\* right after an opener is the level recorded in the frame it pushed, and
\* after the matching closer the level and the stack depth are what they
\* were before the opener.
NestingRestoresLevel ==
    \A c \in Calls :
        fr[c].pc = "scan" =>
            \A h \in 1..Len(fr[c].lines) :
                WellNested(fr[c].lines, h, fr[c].i) =>
                    LET depth == Len(OpenBlocks(fr[c].lines, fr[c].i - 1)) IN
                    /\ Len(fr[c].controlBlocks) = depth
                    /\ fr[c].indentLevel = BaseLevel(c, h) + depth
                    /\ \A k \in 1..depth :
                          fr[c].controlBlocks[k].level = BaseLevel(c, h) + k

\* a block of a well-nested section has been opened and closed again
BlockClosed ==
    \E c \in Calls :
        /\ fr[c].pc = "scan" /\ fr[c].i > 3
        /\ \E h \in 1..(fr[c].i - 3) :
              /\ WellNested(fr[c].lines, h, fr[c].i)
              /\ fr[c].indentLevel = BaseLevel(c, h)
        /\ IsControlEnd(Trim(fr[c].lines[fr[c].i - 1]))
        /\ fr[c].controlBlocks = <<>>

\* `end X;`: a line that starts with `end ` and is not a control closer (nor
\* one of the lines the rules before this one take)
NamedTerminator(line) ==
    /\ StartsWith(line, "end ") /\ ~IsControlEnd(line)
    /\ ~IsSectionStart(line) /\ ~IsSectionEnd(line) /\ ~IsClassDef(line)

\* C18: a named class terminator only lowers the indent level by one, not
\* below 0, and is emitted at the lowered level; the section flags and the
\* control-block stack stay as they were, so with a section active the
\* statement after the terminator is still emitted at indentLevel + 1.
ClassEndKeepsSection ==
    [][\A c \in Calls :
          (Scanning(c) /\ fr'[c] # fr[c]) =>
              LET line == Trim(fr[c].lines[fr[c].i])
                  lowered == IF fr[c].indentLevel > 0
                             THEN fr[c].indentLevel - 1 ELSE 0
              IN /\ NamedTerminator(line)
                    => /\ fr'[c] = [fr[c] EXCEPT
                                       !.indentLevel = lowered,
                                       !.result =
                                           Append(@, Spaces(fr[c].tabWidth * lowered)
                                                     \o line),
                                       !.i = @ + 1]
                       /\ returned' = returned
                 /\ (/\ fr[c].i > 1 /\ InSection(c)
                     /\ NamedTerminator(Trim(fr[c].lines[fr[c].i - 1]))
                     /\ Unmatched(line)
                     /\ ~FollowsOpenLine(fr[c].lines, fr[c].i))
                    => EmitsOnly(c, fr[c].indentLevel + 1)
      ]_vars

\* a section was active at a named terminator and the statement after it has
\* been emitted as a statement of the section
StatementAfterTerminator ==
    \E c \in Calls :
        /\ fr[c].pc = "scan" /\ fr[c].i > 3 /\ InSection(c)
        /\ IsSectionStart(Trim(fr[c].lines[fr[c].i - 3]))
        /\ NamedTerminator(Trim(fr[c].lines[fr[c].i - 2]))
        /\ Unmatched(Trim(fr[c].lines[fr[c].i - 1]))
        /\ fr[c].result[fr[c].i - 1] =
               Spaces(fr[c].tabWidth * (fr[c].indentLevel + 1))
               \o Trim(fr[c].lines[fr[c].i - 1])

\* the lines the corrective pass of slot c started from
Unfixed(c) == Split(fr[c].text)

IsForOpener(line) == StartsWith(line, "for ") /\ EndsWith(line, "loop")

\* the width the corrective pass gives the control lines of the section
\* line j lies in: one level more than the section header
HeaderPlusOne(c, j) ==
    LeadWidth(fr[c].finalLines[HeaderBefore(Unfixed(c), j)]) + fr[c].tabWidth

\* C19: the corrective pass leaves every `for ... loop` line as it is and
\* puts every `end for` line of a section one level deeper than the section
\* header; so in a well-nested section a for opener inside another block
\* stays deeper than header + 1 while its `end for` is at header + 1, and a
\* for opener directly in the section is at header + 1 like its `end for`.
ForOpenerKept ==
    \A c \in Calls :
        Fixed(c) =>
            \A j \in 1..Len(fr[c].finalLines) :
                LET line == Trim(Unfixed(c)[j])
                    nested == Len(OpenBlocks(Unfixed(c), j - 1)) > 0
                    wellNested ==
                        WellNested(Unfixed(c), HeaderBefore(Unfixed(c), j), j)
                IN /\ IsForOpener(line)
                      => fr[c].finalLines[j] = Unfixed(c)[j]
                   /\ (StartsWith(line, "end for") /\ InsideSection(Unfixed(c), j))
                      => LeadWidth(fr[c].finalLines[j]) = HeaderPlusOne(c, j)
                   /\ (IsForOpener(line) /\ wellNested /\ nested)
                      => LeadWidth(fr[c].finalLines[j]) > HeaderPlusOne(c, j)
                   /\ (IsForOpener(line) /\ wellNested /\ ~nested)
                      => LeadWidth(fr[c].finalLines[j]) = HeaderPlusOne(c, j)

\* a for block inside an if block has been through the corrective pass: its
\* opener is deeper than its `end for`
NestedForMisaligned ==
    \E c \in Calls :
        /\ Fixed(c)
        /\ \E j \in 2..(Len(fr[c].finalLines) - 1) :
              /\ IsForOpener(Trim(Unfixed(c)[j]))
              /\ WellNested(Unfixed(c), HeaderBefore(Unfixed(c), j), j + 2)
              /\ Len(OpenBlocks(Unfixed(c), j - 1)) > 0
              /\ StartsWith(Trim(Unfixed(c)[j + 1]), "end for")
              /\ LeadWidth(fr[c].finalLines[j])
                    > LeadWidth(fr[c].finalLines[j + 1])
              /\ LeadWidth(fr[c].finalLines[j + 1]) = HeaderPlusOne(c, j)

\* line j of ls is one the corrective pass rewrites: an if/when header, an
\* else/elseif or an end if/when/for line inside a section
RewrittenLine(ls, j) ==
    IsControlKeywordLine(Trim(ls[j])) /\ InsideSection(ls, j)

\* C20: the corrective pass keeps the number and the order of the lines,
\* keeps the trimmed content of every line, and leaves every line that is
\* not a control-keyword line inside a section exactly as it was.
CorrectivePassKeepsText ==
    \A c \in Calls :
        Fixed(c) =>
            /\ Len(fr[c].finalLines) = Len(Unfixed(c))
            /\ \A j \in 1..Len(fr[c].finalLines) :
                  /\ Trim(fr[c].finalLines[j]) = Trim(Unfixed(c)[j])
                  /\ ~RewrittenLine(Unfixed(c), j)
                     => fr[c].finalLines[j] = Unfixed(c)[j]

\* the pass has moved a control line and kept an indented statement of the
\* same section
CorrectedAndKept ==
    \E c \in Calls :
        /\ Fixed(c)
        /\ \E j, k \in 1..Len(fr[c].finalLines) :
              /\ RewrittenLine(Unfixed(c), j)
              /\ fr[c].finalLines[j] # Unfixed(c)[j]
              /\ InsideSection(Unfixed(c), k)
              /\ ~RewrittenLine(Unfixed(c), k)
              /\ LeadWidth(Unfixed(c)[k]) > 0
              /\ fr[c].finalLines[k] = Unfixed(c)[k]
====
